---- MODULE Spec2Model ----
(***************************************************************************)
(* WarrantyVault AI microservice (ai-service/app.py): the lazily loaded    *)
(* Donut singleton, the two request handlers with their exception funnels, *)
(* the per-field extraction loop and the PaddleOCR text aggregation.       *)
(*                                                                         *)
(* Spec     the service: requests handled as coroutines on one event loop  *)
(* SpecIso  two runs of extract_all_structured_fields on the same page and *)
(*          the same environment, one of them with a failure injected into *)
(*          one field's generation                                         *)
(* SpecOcr  extract_text_with_paddleocr applied to bounded backend results *)
(***************************************************************************)
EXTENDS Integers, Sequences, FiniteSets, TLC

(* ------------------------------ bounds --------------------------------- *)

\* Request slots in flight at once.
NumRequests == 2

\* Construction steps the environment may fail over a run.
MaxLoadFailures == 2

\* Lines the OCR backend detects on a page.
MaxLines == 3

(* ------------------------- values of the program ----------------------- *)

None == "None"

\* The globals before the first load (donut_processor = None, donut_model = None).
NoHandle == 0

Reqs == 1..NumRequests

\* app.py:190, in enumeration order.
fields ==
  <<"product_name", "order_id", "invoice_number",
    "total_amount", "purchase_date", "retailer">>

FieldSet == {fields[k] : k \in 1..Len(fields)}

Endpoints == {"/", "/extract-text", "/ai-structured-extract"}

ContentTypes == {"application/pdf", "image/png"}

\* Classes of uploaded bytes: a PDF with pages, a PDF with no page, a raster
\* image, and bytes that are neither.
Uploads == {"pdf_pages", "pdf_empty", "png", "garbage"}

\* An exception object, of a class derived from Exception.
Exc(type, detail) == [type |-> type, detail |-> detail]

Raised(e) == [raised |-> TRUE, exc |-> e, image |-> None]

Returned(img) == [raised |-> FALSE, exc |-> None, image |-> img]

\* convert_from_bytes(pdf_bytes, dpi=300, first_page=1, last_page=1):
\* the rendered pages; it raises when the bytes are no PDF.
convert_from_bytes(bytes) ==
  CASE bytes = "pdf_pages" -> [raised |-> FALSE, images |-> <<"pageA">>]
    [] bytes = "pdf_empty" -> [raised |-> FALSE, images |-> <<>>]
    [] OTHER -> [raised |-> TRUE, images |-> <<>>]

\* convert_pdf_to_image: images[0] if images else None; the except clause
\* logs and re-raises.
convert_pdf_to_image(bytes) ==
  LET out == convert_from_bytes(bytes)
  IN  IF out.raised THEN Raised(Exc("PDFSyntaxError", "not a PDF"))
      ELSE IF Len(out.images) > 0 THEN Returned(out.images[1])
      ELSE Returned(None)

\* Image.open(io.BytesIO(file_bytes)): raises on bytes that are no image.
ImageOpen(bytes) ==
  IF bytes = "png" THEN Returned("pageB")
  ELSE Raised(Exc("UnidentifiedImageError", "cannot identify image file"))

\* The content-type dispatch of both handlers.
Rasterize(content_type, bytes) ==
  IF content_type = "application/pdf"
  THEN convert_pdf_to_image(bytes)
  ELSE ImageOpen(bytes)

\* raise HTTPException(status_code=400, detail="Failed to process file")
ImageIsNone == Exc("HTTPException", "Failed to process file")

\* except Exception as e: raise HTTPException(status_code=500, detail=str(e)).
\* HTTPException derives from Exception, so the clause also catches the
\* handler's own HTTPException(400).
HandlerExcept(e) == [status |-> 500, body |-> [detail |-> e.detail]]

\* return JSONResponse(content=...)
JSONResponse(content) == [status |-> 200, body |-> content]

\* What greedy decoding reads off a page for a field: pageA is legible for
\* all six fields, pageB only for order_id and total_amount.
Legible(image, field) ==
  image = "pageA" \/ field \in {"order_id", "total_amount"}

\* model.generate + batch_decode + marker stripping: deterministic in the
\* page and the prompt (num_beams=1, no sampling).
Decode(image, field) ==
  IF Legible(image, field) THEN image \o ":" \o field ELSE ""

(* ------------------------ text recognition (OCR) ----------------------- *)

\* Texts are sequences of characters; NL is the newline character.
NL == "\n"

\* Confidences are counted in units of 10^-5; ConfOne is 1.0.
ConfOne == 100000

\* round(avg_confidence, 4) keeps a multiple of 10^-4, ten units.
RoundStep == 10

\* A Python value that is None or a list; "not x" holds of None and of [].
PyNone == [kind |-> "None", items |-> <<>>]

PyList(xs) == [kind |-> "list", items |-> xs]

Falsy(x) == x.kind = "None" \/ Len(x.items) = 0

\* A detected line: line[1][0] is its text, line[1][1] its confidence.
Line(t, c) == [text |-> t, confidence |-> c]

RECURSIVE Join(_)
\* "\n".join(extracted_lines)
Join(lines) ==
  IF Len(lines) = 0 THEN <<>>
  ELSE IF Len(lines) = 1 THEN lines[1]
  ELSE lines[1] \o <<NL>> \o Join(Tail(lines))

RECURSIVE Sum(_)
\* sum(confidence_scores)
Sum(scores) ==
  IF Len(scores) = 0 THEN 0 ELSE scores[1] + Sum(Tail(scores))

Truncate4(total, n) == (total \div (RoundStep * n)) * RoundStep

\* round(total / n, 4) in exact arithmetic: the nearest multiple of 10^-4,
\* a tie going to the even one.
Round4(total, n) ==
  LET d == RoundStep * n
      q == total \div d
      rem == total % d
      up == \/ 2 * rem > d
            \/ 2 * rem = d /\ q % 2 = 1
  IN  (IF up THEN q + 1 ELSE q) * RoundStep

OcrReturn(text, confidence) ==
  [raised |-> FALSE, text |-> text, confidence |-> confidence]

OcrRaise == [raised |-> TRUE, text |-> <<>>, confidence |-> 0]

\* The function without its "if not result or not result[0]" guard:
\* result[0] of None or of [] raises, and so does iterating None.
extract_text_unguarded(result) ==
  IF Falsy(result) \/ result.items[1].kind = "None" THEN OcrRaise
  ELSE LET lines == result.items[1].items
           extracted_lines == [k \in 1..Len(lines) |-> lines[k].text]
           confidence_scores == [k \in 1..Len(lines) |-> lines[k].confidence]
       IN  OcrReturn(Join(extracted_lines),
                     IF Len(confidence_scores) > 0
                     THEN Round4(Sum(confidence_scores), Len(confidence_scores))
                     ELSE 0)

\* extract_text_with_paddleocr, from the backend's result on: `result` is
\* what paddle_ocr.ocr(img_array, cls=True) returned.
extract_text_with_paddleocr(result) ==
  IF Falsy(result) \/ Falsy(result.items[1]) THEN OcrReturn(<<>>, 0)
  ELSE LET lines == result.items[1].items
           extracted_lines == [k \in 1..Len(lines) |-> lines[k].text]
           confidence_scores == [k \in 1..Len(lines) |-> lines[k].confidence]
           full_text == Join(extracted_lines)
           avg_confidence ==
             IF Len(confidence_scores) > 0
             THEN Round4(Sum(confidence_scores), Len(confidence_scores))
             ELSE 0
       IN  OcrReturn(full_text, avg_confidence)

\* Line texts the backend reads (a recognized line holds no newline).
LineTexts == {<<"I", "N", "V">>, <<"#", "4">>, <<>>}

ConfSamples == {0, 33333, 90001, ConfOne}

Lines == {Line(t, c) : t \in LineTexts, c \in ConfSamples}

LineSeqs == UNION {[1..n -> Lines] : n \in 0..MaxLines}

\* Everything paddle_ocr.ocr returns: None, [], [None], [[]], [[line, ...]].
OcrResults ==
  {PyNone, PyList(<<>>), PyList(<<PyNone>>)}
    \cup {PyList(<<PyList(ls)>>) : ls \in LineSeqs}

\* The results the service's own requests meet.
OcrSamples ==
  {PyNone, PyList(<<PyList(<<Line(<<"I", "N", "V">>, 90001)>>)>>)}

(* --------------------------- state of the service ---------------------- *)

VARIABLES
  donut_processor,   \* global: None or the handle of a loaded processor
  donut_model,       \* global: None or the handle of a loaded model
  model_device,      \* where donut_model's weights are: "cpu" or "cuda"
  cuda_available,    \* torch.cuda.is_available()
  loop,              \* the request whose coroutine runs on the event loop, 0 if none
  pc,                \* per request: position in its handler
  req,               \* per request: endpoint, content_type, bytes
  image,             \* per request: the page image (or None)
  field_i,           \* per request: index into fields
  attempt,           \* per request: the construction it is running (0 if none)
  value,             \* per request: what extract_structured_with_donut returned
  results,           \* per request: the results dict of the field loop
  response,          \* per request: status and body sent
  constructions,     \* history: entries into the construction branch
  load_failures,     \* history: construction steps that raised
  last_load,         \* history: how the latest load_donut_model call ended
  handles,           \* history: the (processor, model) pairs returned
  builder,           \* history: the request that completed a construction, 0 if none
  faults,            \* history, per request: kinds of failure it met
  gen_failed,        \* history, per request: fields whose extraction raised
  arrived_uninit     \* history, per request: it arrived before the globals were set

svars ==
  <<donut_processor, donut_model, model_device, cuda_available, loop, pc, req,
    image, field_i, attempt, value, results, response, constructions,
    load_failures, last_load, handles, builder, faults, gen_failed,
    arrived_uninit>>

NoReq == [endpoint |-> None, content_type |-> None, bytes |-> None]

NoResponse == [status |-> 0, body |-> None]

Empty == [f \in {} |-> ""]

ServiceInit ==
  /\ donut_processor = NoHandle
  /\ donut_model = NoHandle
  /\ model_device = "cpu"
  /\ cuda_available \in BOOLEAN
  /\ loop = 0
  /\ pc = [r \in Reqs |-> "idle"]
  /\ req = [r \in Reqs |-> NoReq]
  /\ image = [r \in Reqs |-> None]
  /\ field_i = [r \in Reqs |-> 0]
  /\ attempt = [r \in Reqs |-> 0]
  /\ value = [r \in Reqs |-> ""]
  /\ results = [r \in Reqs |-> Empty]
  /\ response = [r \in Reqs |-> NoResponse]
  /\ constructions = 0
  /\ load_failures = 0
  /\ last_load = "never"
  /\ handles = {}
  /\ faults = [r \in Reqs |-> {}]
  /\ gen_failed = [r \in Reqs |-> {}]
  /\ builder = 0
  /\ arrived_uninit = [r \in Reqs |-> FALSE]

(* ------------------------------ scheduling ----------------------------- *)

\* Both upload handlers and root are "async def": they run as coroutines on
\* the single event loop of the process, and a coroutine gives the loop up
\* only at an await (await file.read()) or when it ends.  Everything a
\* handler calls after the read is a plain synchronous call.
TurnThreads(r) == TRUE

Turn(r) == loop \in {0, r}

(* --------------------------- the lazy singleton ------------------------ *)

NeedsLoadAlways(p, m) == TRUE

\* if donut_processor is None or donut_model is None:
NeedsLoad(p, m) == p = NoHandle \/ m = NoHandle

\* pixel_values and decoder_input_ids go to "cuda" when it is available.
InputDevice(cuda) == IF cuda THEN "cuda" ELSE "cpu"

\* The environment may make a construction step raise, a bounded number of
\* times over a run.
LoadOutcomes == IF load_failures < MaxLoadFailures THEN {"ok", "raise"} ELSE {"ok"}

(* ------------------------------- requests ------------------------------ *)

ReqUnchanged ==
  UNCHANGED <<image, field_i, attempt, value, results, gen_failed,
              arrived_uninit>>

GlobalsUnchanged ==
  UNCHANGED <<donut_processor, donut_model, model_device, cuda_available,
              constructions, load_failures, last_load, handles, builder>>

\* A request arrives at one of the three routes.
Receive(r) ==
  /\ pc[r] = "idle"
  /\ \E ep \in Endpoints :
       /\ req' = [req EXCEPT ![r].endpoint = ep]
       /\ pc' = [pc EXCEPT ![r] = IF ep = "/" THEN "root" ELSE "reading"]
       /\ arrived_uninit' = [arrived_uninit EXCEPT ![r] =
            ep = "/ai-structured-extract"
              /\ NeedsLoad(donut_processor, donut_model)]
  /\ UNCHANGED <<loop, response, faults, image, field_i, attempt, value,
                 results, gen_failed>>
  /\ GlobalsUnchanged

\* root(): reports the status and the two model identifiers.
HealthCheck(r) ==
  /\ pc[r] = "root"
  /\ Turn(r)
  /\ loop' = r
  /\ response' = [response EXCEPT ![r] =
       [status |-> 200, body |-> [status |-> "running"]]]
  /\ pc' = [pc EXCEPT ![r] = "done"]
  /\ UNCHANGED <<req, faults>>
  /\ ReqUnchanged
  /\ GlobalsUnchanged

\* file_bytes = await file.read(): the coroutine resumes with the upload.
Read(r) ==
  /\ pc[r] = "reading"
  /\ Turn(r)
  /\ loop' = r
  /\ \E ct \in ContentTypes, b \in Uploads :
       req' = [req EXCEPT ![r].content_type = ct, ![r].bytes = b]
  /\ pc' = [pc EXCEPT ![r] = "convert"]
  /\ UNCHANGED <<response, faults>>
  /\ ReqUnchanged
  /\ GlobalsUnchanged

\* The conversion to a page image and the "image is None" test, in the
\* handler's try block.
Convert(r) ==
  /\ pc[r] = "convert"
  /\ Turn(r)
  /\ LET out == Rasterize(req[r].content_type, req[r].bytes)
     IN  IF out.raised \/ out.image = None
         THEN /\ response' = [response EXCEPT ![r] =
                   HandlerExcept(IF out.raised THEN out.exc ELSE ImageIsNone)]
              /\ faults' = [faults EXCEPT ![r] = @ \cup {"input"}]
              /\ pc' = [pc EXCEPT ![r] = "done"]
              /\ UNCHANGED <<image, field_i, results>>
         ELSE /\ image' = [image EXCEPT ![r] = out.image]
              /\ IF req[r].endpoint = "/extract-text"
                 THEN /\ pc' = [pc EXCEPT ![r] = "ocr"]
                      /\ UNCHANGED <<field_i, results>>
                 ELSE \* extract_all_structured_fields: results = {}
                      /\ pc' = [pc EXCEPT ![r] = "check"]
                      /\ field_i' = [field_i EXCEPT ![r] = 1]
                      /\ results' = [results EXCEPT ![r] = Empty]
              /\ UNCHANGED <<response, faults>>
  /\ UNCHANGED <<loop, req, attempt, value, gen_failed, arrived_uninit>>
  /\ GlobalsUnchanged

\* load_donut_model, the test of the globals.  With both set the call
\* returns them; otherwise it enters the construction.
LoadCheck(r) ==
  /\ pc[r] = "check"
  /\ Turn(r)
  /\ IF NeedsLoad(donut_processor, donut_model)
     THEN /\ constructions' = constructions + 1
          /\ attempt' = [attempt EXCEPT ![r] = constructions + 1]
          /\ last_load' = "running"
          /\ pc' = [pc EXCEPT ![r] = "proc"]
          /\ UNCHANGED handles
     ELSE /\ handles' = handles \cup {<<donut_processor, donut_model>>}
          /\ last_load' = "ok"
          /\ pc' = [pc EXCEPT ![r] = "gen"]
          /\ UNCHANGED <<constructions, attempt>>
  /\ UNCHANGED <<donut_processor, donut_model, model_device, cuda_available,
                 load_failures, builder, loop, req, image, field_i, value,
                 results, response, faults, gen_failed, arrived_uninit>>

\* A construction step raised: load_donut_model logs and re-raises, and the
\* except clause of extract_structured_with_donut returns "".
LoadRaised(r) ==
  /\ load_failures' = load_failures + 1
  /\ last_load' = "failed"
  /\ attempt' = [attempt EXCEPT ![r] = 0]
  /\ value' = [value EXCEPT ![r] = ""]
  /\ faults' = [faults EXCEPT ![r] = @ \cup {"load"}]
  /\ gen_failed' = [gen_failed EXCEPT ![r] = @ \cup {fields[field_i[r]]}]
  /\ pc' = [pc EXCEPT ![r] = "store"]

\* donut_processor = DonutProcessor.from_pretrained(...)
LoadProcessor(r) ==
  /\ pc[r] = "proc"
  /\ Turn(r)
  /\ \E o \in LoadOutcomes :
       IF o = "ok"
       THEN /\ donut_processor' = attempt[r]
            /\ pc' = [pc EXCEPT ![r] = "model"]
            /\ UNCHANGED <<load_failures, last_load, attempt, value, faults,
                           gen_failed>>
       ELSE /\ LoadRaised(r)
            /\ UNCHANGED donut_processor
  /\ UNCHANGED <<donut_model, model_device, cuda_available, constructions,
                 handles, builder, loop, req, image, field_i, results,
                 response, arrived_uninit>>

\* donut_model = VisionEncoderDecoderModel.from_pretrained(...)
LoadModel(r) ==
  /\ pc[r] = "model"
  /\ Turn(r)
  /\ \E o \in LoadOutcomes :
       IF o = "ok"
       THEN /\ donut_model' = attempt[r]
            /\ model_device' = "cpu"
            /\ pc' = [pc EXCEPT ![r] = "place"]
            /\ UNCHANGED <<load_failures, last_load, attempt, value, faults,
                           gen_failed>>
       ELSE /\ LoadRaised(r)
            /\ UNCHANGED <<donut_model, model_device>>
  /\ UNCHANGED <<donut_processor, cuda_available, constructions, handles,
                 builder, loop, req, image, field_i, results, response,
                 arrived_uninit>>

\* if torch.cuda.is_available(): donut_model.to("cuda"); then
\* return donut_processor, donut_model.
PlaceOnDevice(r) ==
  /\ pc[r] = "place"
  /\ Turn(r)
  /\ \E o \in (IF cuda_available THEN LoadOutcomes ELSE {"ok"}) :
       IF o = "ok"
       THEN /\ model_device' = InputDevice(cuda_available)
            /\ handles' = handles \cup {<<donut_processor, donut_model>>}
            /\ last_load' = "ok"
            /\ builder' = r
            /\ attempt' = [attempt EXCEPT ![r] = 0]
            /\ pc' = [pc EXCEPT ![r] = "gen"]
            /\ UNCHANGED <<load_failures, value, faults, gen_failed>>
       ELSE /\ LoadRaised(r)
            /\ UNCHANGED <<model_device, handles, builder>>
  /\ UNCHANGED <<donut_processor, donut_model, cuda_available, constructions,
                 loop, req, image, field_i, results, response,
                 arrived_uninit>>

StoreResultSkipEmpty(res, field, v) ==
  IF v = "" THEN res
  ELSE [f \in DOMAIN res \cup {field} |-> IF f = field THEN v ELSE res[f]]

\* results[field] = value if value else ""
StoreResult(res, field, v) ==
  [f \in DOMAIN res \cup {field} |->
     IF f = field THEN (IF v # "" THEN v ELSE "") ELSE res[f]]

\* The prompt, the generation and the decoding for one field; any exception
\* (a model error, or weights and inputs on different devices) ends in the
\* except clause, which returns "".
Generate(r) ==
  /\ pc[r] = "gen"
  /\ Turn(r)
  /\ \E ok \in BOOLEAN :
       LET works == ok /\ model_device = InputDevice(cuda_available)
       IN  /\ value' = [value EXCEPT ![r] =
                 IF works THEN Decode(image[r], fields[field_i[r]]) ELSE ""]
           /\ gen_failed' = [gen_failed EXCEPT ![r] =
                 IF works THEN @ ELSE @ \cup {fields[field_i[r]]}]
           /\ faults' = [faults EXCEPT ![r] =
                 IF works THEN @ ELSE @ \cup {"gen"}]
  /\ pc' = [pc EXCEPT ![r] = "store"]
  /\ UNCHANGED <<loop, req, image, field_i, attempt, results, response,
                 arrived_uninit>>
  /\ GlobalsUnchanged

\* The body of "for field in fields" after the call, and the loop's advance.
Store(r) ==
  /\ pc[r] = "store"
  /\ Turn(r)
  /\ results' = [results EXCEPT ![r] =
       StoreResult(@, fields[field_i[r]], value[r])]
  /\ IF field_i[r] < Len(fields)
     THEN /\ field_i' = [field_i EXCEPT ![r] = @ + 1]
          /\ pc' = [pc EXCEPT ![r] = "check"]
     ELSE /\ pc' = [pc EXCEPT ![r] = "respond"]
          /\ UNCHANGED field_i
  /\ UNCHANGED <<loop, req, image, attempt, value, response, faults,
                 gen_failed, arrived_uninit>>
  /\ GlobalsUnchanged

\* return JSONResponse(content=structured_data)
Respond(r) ==
  /\ pc[r] = "respond"
  /\ Turn(r)
  /\ response' = [response EXCEPT ![r] = JSONResponse(results[r])]
  /\ pc' = [pc EXCEPT ![r] = "done"]
  /\ UNCHANGED <<loop, req, faults>>
  /\ ReqUnchanged
  /\ GlobalsUnchanged

\* result = extract_text_with_paddleocr(image); the backend returns a result
\* or raises, and a raise reaches the handler's except clause.
Recognize(r) ==
  /\ pc[r] = "ocr"
  /\ Turn(r)
  /\ \/ \E result \in OcrSamples :
          LET out == extract_text_with_paddleocr(result)
          IN  /\ response' = [response EXCEPT ![r] =
                   JSONResponse([text |-> out.text,
                                 confidence |-> out.confidence])]
              /\ UNCHANGED faults
     \/ /\ response' = [response EXCEPT ![r] =
             HandlerExcept(Exc("RuntimeError", "ocr backend failed"))]
        /\ faults' = [faults EXCEPT ![r] = @ \cup {"ocr"}]
  /\ pc' = [pc EXCEPT ![r] = "done"]
  /\ UNCHANGED <<loop, req>>
  /\ ReqUnchanged
  /\ GlobalsUnchanged

\* The response is sent, the coroutine ends and frees the loop; the slot
\* takes the next request.
Finish(r) ==
  /\ pc[r] = "done"
  /\ Turn(r)
  /\ loop' = 0
  /\ pc' = [pc EXCEPT ![r] = "idle"]
  /\ req' = [req EXCEPT ![r] = NoReq]
  /\ image' = [image EXCEPT ![r] = None]
  /\ field_i' = [field_i EXCEPT ![r] = 0]
  /\ value' = [value EXCEPT ![r] = ""]
  /\ results' = [results EXCEPT ![r] = Empty]
  /\ response' = [response EXCEPT ![r] = NoResponse]
  /\ faults' = [faults EXCEPT ![r] = {}]
  /\ gen_failed' = [gen_failed EXCEPT ![r] = {}]
  /\ arrived_uninit' = [arrived_uninit EXCEPT ![r] = FALSE]
  /\ UNCHANGED attempt
  /\ GlobalsUnchanged

(* -------------------- recognition on its own (SpecOcr) ----------------- *)

VARIABLES
  ocr_pc,       \* "off", "call", "returned" or "raised"
  ocr_result,   \* what paddle_ocr.ocr returned for the page
  ocr_out       \* what extract_text_with_paddleocr returned

ovars == <<ocr_pc, ocr_result, ocr_out>>

OcrOff ==
  /\ ocr_pc = "off"
  /\ ocr_result = PyNone
  /\ ocr_out = OcrReturn(<<>>, 0)

OcrInit ==
  /\ ocr_pc = "call"
  /\ ocr_result \in OcrResults
  /\ ocr_out = OcrReturn(<<>>, 0)

\* The call returns (or raises out of its own statements).
OcrCall ==
  /\ ocr_pc = "call"
  /\ ocr_out' = extract_text_with_paddleocr(ocr_result)
  /\ ocr_pc' = "returned"
  /\ UNCHANGED ocr_result

\* paddle_ocr.ocr itself raises: the except clause logs and re-raises.
OcrBackendRaises ==
  /\ ocr_pc = "call"
  /\ ocr_out' = OcrRaise
  /\ ocr_pc' = "raised"
  /\ UNCHANGED ocr_result

(* ------------- the field loop run twice, side by side (SpecIso) -------- *)

\* The globals as one value.
Globals(p, m, dev, cuda) ==
  [donut_processor |-> p, donut_model |-> m, model_device |-> dev,
   cuda_available |-> cuda]

\* How the environment lets one construction go: every step works, or the
\* named step raises.
IsoLoadOutcomes == {"ok", "processor", "model", "to"}

\* load_donut_model as one call on globals G; `o` is the environment's
\* outcome should the call construct.
load_donut_model(G, o) ==
  IF ~NeedsLoad(G.donut_processor, G.donut_model)
  THEN [G |-> G, raised |-> FALSE]
  ELSE CASE o = "processor" -> [G |-> G, raised |-> TRUE]
         [] o = "model" ->
              [G |-> [G EXCEPT !.donut_processor = 1], raised |-> TRUE]
         [] o = "to" /\ G.cuda_available ->
              [G |-> [G EXCEPT !.donut_processor = 1, !.donut_model = 1,
                               !.model_device = "cpu"],
               raised |-> TRUE]
         [] OTHER ->
              [G |-> [G EXCEPT !.donut_processor = 1, !.donut_model = 1,
                               !.model_device = InputDevice(G.cuda_available)],
               raised |-> FALSE]

\* extract_structured_with_donut as one call: the value returned and the
\* globals it leaves.  `gen_ok` is whether the generation and the decoding
\* go through.
extract_structured_with_donut(G, img, field, o, gen_ok) ==
  LET loaded == load_donut_model(G, o)
      works == /\ ~loaded.raised
               /\ gen_ok
               /\ loaded.G.model_device = InputDevice(G.cuda_available)
  IN  [G |-> loaded.G, value |-> IF works THEN Decode(img, field) ELSE ""]

\* A loop whose first failed field ends it.
FieldPassAbort(run, img, o, gen_ok) ==
  LET field == fields[run.i]
      out == extract_structured_with_donut(run.G, img, field, o, gen_ok)
  IN  [G |-> out.G,
       results |-> StoreResult(run.results, field, out.value),
       i |-> IF out.value = "" THEN Len(fields) + 1 ELSE run.i + 1]

\* One pass of "for field in fields" in extract_all_structured_fields.
FieldPass(run, img, o, gen_ok) ==
  LET field == fields[run.i]
      out == extract_structured_with_donut(run.G, img, field, o, gen_ok)
  IN  [G |-> out.G,
       results |-> StoreResult(run.results, field, out.value),
       i |-> run.i + 1]

VARIABLES
  iso_pc,    \* "off", "loop" or "returned"
  iso_env,   \* the page and the field whose generation is made to fail
  iso_a,     \* the run without the injected failure
  iso_b      \* the run with it

ivars == <<iso_pc, iso_env, iso_a, iso_b>>

IsoRun(cuda) ==
  [G |-> Globals(NoHandle, NoHandle, "cpu", cuda), results |-> Empty, i |-> 1]

IsoOff ==
  /\ iso_pc = "off"
  /\ iso_env = [image |-> None, inject |-> None]
  /\ iso_a = IsoRun(FALSE)
  /\ iso_b = IsoRun(FALSE)

IsoInit ==
  /\ iso_pc = "loop"
  /\ iso_env \in [image : {"pageA", "pageB"}, inject : FieldSet]
  /\ \E cuda \in BOOLEAN :
       /\ iso_a = IsoRun(cuda)
       /\ iso_b = IsoRun(cuda)

\* Both runs extract their next field, under the same environment.
IsoField ==
  /\ iso_pc = "loop"
  /\ iso_a.i <= Len(fields)
  /\ iso_b.i <= Len(fields)
  /\ \E o \in IsoLoadOutcomes, gen_ok \in BOOLEAN :
       /\ iso_a' = FieldPass(iso_a, iso_env.image, o, gen_ok)
       /\ iso_b' = FieldPass(iso_b, iso_env.image, o,
                             gen_ok /\ fields[iso_b.i] # iso_env.inject)
  /\ UNCHANGED <<iso_pc, iso_env>>

\* return results, in both runs.
IsoReturn ==
  /\ iso_pc = "loop"
  /\ iso_a.i > Len(fields) \/ iso_b.i > Len(fields)
  /\ iso_pc' = "returned"
  /\ UNCHANGED <<iso_env, iso_a, iso_b>>

(* --------------------------- the specifications ------------------------ *)

vars == <<svars, ovars, ivars>>

Init == ServiceInit /\ OcrOff /\ IsoOff

\* The service alone: the two side specifications stay switched off.
ServiceOnly == UNCHANGED <<ovars, ivars>>

Next ==
  \E r \in Reqs :
    \/ Receive(r) /\ ServiceOnly
    \/ HealthCheck(r) /\ ServiceOnly
    \/ Read(r) /\ ServiceOnly
    \/ Convert(r) /\ ServiceOnly
    \/ Recognize(r) /\ ServiceOnly
    \/ LoadCheck(r) /\ ServiceOnly
    \/ LoadProcessor(r) /\ ServiceOnly
    \/ LoadModel(r) /\ ServiceOnly
    \/ PlaceOnDevice(r) /\ ServiceOnly
    \/ Generate(r) /\ ServiceOnly
    \/ Store(r) /\ ServiceOnly
    \/ Respond(r) /\ ServiceOnly
    \/ Finish(r) /\ ServiceOnly

Spec == Init /\ [][Next]_vars

InitOcr == ServiceInit /\ OcrInit /\ IsoOff

OcrOnly == UNCHANGED <<svars, ivars>>

NextOcr ==
  \/ OcrCall /\ OcrOnly
  \/ OcrBackendRaises /\ OcrOnly

SpecOcr == InitOcr /\ [][NextOcr]_vars

InitIso == ServiceInit /\ OcrOff /\ IsoInit

IsoOnly == UNCHANGED <<svars, ovars>>

NextIso ==
  \/ IsoField /\ IsoOnly
  \/ IsoReturn /\ IsoOnly

SpecIso == InitIso /\ [][NextIso]_vars

(* ------------------------------- claims -------------------------------- *)

Structured(r) == req[r].endpoint = "/ai-structured-extract"

ClientClass == 400..499

ServerClass == 500..599

\* C1: extract_all_structured_fields returns a mapping whose keys are exactly
\* the six field names whatever fields failed, every failed field mapped to
\* the empty string; the handler sends that mapping with status 200.
C1_SixKeys ==
  \A r \in Reqs :
    /\ pc[r] = "respond" =>
         /\ DOMAIN results[r] = FieldSet
         /\ \A f \in gen_failed[r] : results[r][f] = ""
    /\ (pc[r] = "done" /\ Structured(r) /\ image[r] # None) =>
         /\ response[r].status = 200
         /\ DOMAIN response[r].body = FieldSet
         /\ \A f \in gen_failed[r] : response[r].body[f] = ""

\* C1 witness: the loop has returned with all six extractions failed.
C1_AllSixFailed ==
  \E r \in Reqs :
    /\ pc[r] = "respond"
    /\ gen_failed[r] = FieldSet
    /\ results[r] = [f \in FieldSet |-> ""]

\* A request that has passed the "is None" test and is constructing.
Constructing(r) == pc[r] \in {"proc", "model", "place"}

\* C3: requests in flight together while the globals are unset never
\* construct side by side, the construction runs once in all (a run in which
\* a construction step raised runs it again, as C4 asks), and every
\* load_donut_model call that returns hands out the same pair, the one the
\* globals hold.
C3_OneConstruction ==
  /\ \A r1, r2 \in Reqs : (Constructing(r1) /\ Constructing(r2)) => r1 = r2
  /\ load_failures = 0 => constructions <= 1
  /\ handles # {} => constructions >= 1
  /\ Cardinality(handles) <= 1
  /\ \A h \in handles :
       /\ h = <<donut_processor, donut_model>>
       /\ h[1] # NoHandle
       /\ h[2] # NoHandle

\* C3 witness: a request that arrived while the globals were unset got the
\* pair on its first call without constructing: another request, in flight
\* with it, had run the one construction.
C3_SecondCallerReuses ==
  \E r \in Reqs :
    /\ arrived_uninit[r]
    /\ pc[r] = "gen"
    /\ field_i[r] = 1
    /\ builder \notin {0, r}
    /\ constructions = 1
    /\ load_failures = 0

C5_UnsetAfterFailure ==
  last_load = "failed" =>
    /\ donut_processor = NoHandle
    /\ donut_model = NoHandle

\* C6: a structured-extract request during which the model load raised ends
\* with a request-level error, never with a six-key result.
C6_LoadFailureAborts ==
  \A r \in Reqs :
    (pc[r] = "done" /\ Structured(r) /\ "load" \in faults[r]) =>
      /\ response[r].status # 200
      /\ response[r].status \in ClientClass \cup ServerClass

\* C7: at both upload routes, an input that yields no page image ends in a
\* client-class status, an OCR-backend or model failure in a server-class one.
C7_FailureClasses ==
  \A r \in Reqs :
    pc[r] = "done" =>
      /\ "input" \in faults[r] => response[r].status \in ClientClass
      /\ "ocr" \in faults[r] => response[r].status \in ServerClass
      /\ "load" \in faults[r] => response[r].status \in ServerClass

\* C8: once a load_donut_model call has returned a pair, no step of any
\* request changes the globals, runs a construction, or is handed another
\* pair.
C8_StableHandle ==
  [][handles # {} =>
       /\ donut_processor' = donut_processor
       /\ donut_model' = donut_model
       /\ model_device' = model_device
       /\ constructions' = constructions
       /\ handles' = handles]_vars

\* C8 witness: a request other than the one that constructed has run its six
\* extractions on the pair and answered.
C8_LaterRequestServed ==
  \E r \in Reqs :
    /\ pc[r] = "done"
    /\ Structured(r)
    /\ response[r].status = 200
    /\ gen_failed[r] = {}
    /\ builder \notin {0, r}
    /\ handles = {<<donut_processor, donut_model>>}

\* The fields the two runs have both gone through.
IsoDone == {fields[k] : k \in 1..(iso_a.i - 1)} \cap {fields[k] : k \in 1..(iso_b.i - 1)}

\* C2: with a failure injected into one field's generation, every other field
\* comes out as in the run without it, the field itself comes out empty, and
\* the fields after it are still extracted: both runs return all six keys.
C2_FailureIsolation ==
  /\ \A g \in IsoDone \ {iso_env.inject} :
       /\ g \in DOMAIN iso_a.results
       /\ g \in DOMAIN iso_b.results
       /\ iso_a.results[g] = iso_b.results[g]
  /\ iso_env.inject \in IsoDone =>
       /\ iso_env.inject \in DOMAIN iso_b.results
       /\ iso_b.results[iso_env.inject] = ""
  /\ iso_pc = "returned" =>
       /\ DOMAIN iso_a.results = FieldSet
       /\ DOMAIN iso_b.results = FieldSet
       /\ iso_a.G = iso_b.G

\* C2 witness: the injected failure emptied a field the other run read, and
\* a later field was read in both runs.
C2_InjectedFailureBit ==
  /\ iso_pc = "returned"
  /\ iso_env.inject = "order_id"
  /\ iso_a.results["order_id"] # ""
  /\ iso_b.results["order_id"] = ""
  /\ iso_b.results["total_amount"] # ""
  /\ iso_a.results["total_amount"] = iso_b.results["total_amount"]

\* The backend results with no line in them.
EmptyOcrResults ==
  {PyNone, PyList(<<>>), PyList(<<PyNone>>), PyList(<<PyList(<<>>)>>)}

\* C9: for a backend result with no line, extract_text_with_paddleocr returns
\* text "" and confidence 0.0 and does not raise; whenever it returns, the
\* confidence is a number of [0, 1].
C9_EmptyOcr ==
  ocr_pc = "returned" =>
    /\ ocr_result \in EmptyOcrResults => ocr_out = OcrReturn(<<>>, 0)
    /\ ~ocr_out.raised => ocr_out.confidence \in 0..ConfOne

\* C9 witness: the call returned on a result whose first page entry is None.
C9_NonePageReturned ==
  /\ ocr_pc = "returned"
  /\ ocr_result = PyList(<<PyNone>>)
  /\ ~ocr_out.raised

\* The lines of a backend result that has some.
OcrLines == ocr_result.items[1].items

\* Where line k starts in the joined text: after the k-1 lines before it and
\* their newlines.
RECURSIVE Offset(_, _)
Offset(lines, k) ==
  IF k = 1 THEN 0 ELSE Offset(lines, k - 1) + Len(lines[k - 1].text) + 1

\* `text` is the line texts in order with one newline between neighbours.
JoinedInOrder(text, lines) ==
  LET n == Len(lines)
  IN  /\ Len(text) = Offset(lines, n) + Len(lines[n].text)
      /\ \A k \in 1..n :
           /\ SubSeq(text, Offset(lines, k) + 1,
                     Offset(lines, k) + Len(lines[k].text)) = lines[k].text
           /\ k < n => text[Offset(lines, k) + Len(lines[k].text) + 1] = NL

\* The number of newline-delimited segments of a text.
Segments(text) == 1 + Cardinality({k \in 1..Len(text) : text[k] = NL})

TotalConfidence == Sum([k \in 1..Len(OcrLines) |-> OcrLines[k].confidence])

HasLines == ocr_result \notin EmptyOcrResults

\* C10 as stated: for a result with lines, the text is the line texts joined
\* by newlines in detection order, with as many segments as lines, and the
\* confidence is the mean of the lines' confidences, within [0, 1].
C10_ExactMean ==
  (ocr_pc = "returned" /\ HasLines) =>
    /\ ~ocr_out.raised
    /\ JoinedInOrder(ocr_out.text, OcrLines)
    /\ Segments(ocr_out.text) = Len(OcrLines)
    /\ ocr_out.confidence * Len(OcrLines) = TotalConfidence
    /\ ocr_out.confidence \in 0..ConfOne

\* C10 amended: the same, the confidence being the mean rounded to four
\* decimal places: a multiple of 10^-4 at most half of 10^-4 away from the
\* mean, within [0, 1].
C10_RoundedMean ==
  (ocr_pc = "returned" /\ HasLines) =>
    LET n == Len(OcrLines)
        gap == ocr_out.confidence * n - TotalConfidence
    IN  /\ ~ocr_out.raised
        /\ JoinedInOrder(ocr_out.text, OcrLines)
        /\ Segments(ocr_out.text) = n
        /\ ocr_out.confidence % RoundStep = 0
        /\ 2 * gap <= RoundStep * n
        /\ 2 * gap >= -(RoundStep * n)
        /\ ocr_out.confidence \in 0..ConfOne

\* C10 witness: two lines with different texts were joined, and the rounding
\* moved the confidence off the mean.
C10_RoundingActed ==
  /\ ocr_pc = "returned"
  /\ HasLines
  /\ Len(OcrLines) >= 2
  /\ OcrLines[1].text # OcrLines[2].text
  /\ ocr_out.confidence * Len(OcrLines) # TotalConfidence

====
